---- MODULE Spec2Model ----
(***************************************************************************)
(* Model of neo4jAuraUtils.py: the Aura instance state-change poller.       *)
(*                                                                          *)
(* The client is single-threaded and synchronous.  Its position in the     *)
(* code is pc; every network call (requests.get, requests.post) and the    *)
(* sleep are separate steps, because the remote instance and the network   *)
(* change on their own between them.  The remote Aura API is the           *)
(* environment: remote is the status the API would report, net says        *)
(* whether a request done now succeeds.                                    *)
(***************************************************************************)
EXTENDS Naturals, Sequences, FiniteSets

VARIABLES
    remote,       \* status of the instance on the Aura side
    net,          \* "ok", "apierr" (response without data) or "down" (request raises)
    inst_info,    \* the inst_info mapping; only its 'status' entry is read by the poller
    pc,           \* position of the client in the code
    caller,       \* the function the client entered from top level
    new_state,    \* argument new_state of the call in progress / last call
    inst_action,  \* argument inst_action of aura_change_state
    r,            \* local r of aura_change_state: the POST's response (never read)
    log,          \* history of the current call: network calls, sleeps, prints
    outcome,      \* how the last call ended
    lastGet,      \* history: status delivered by the latest completed status GET
    stored0       \* history: inst_info['status'] as passed into the current call

vars == <<remote, net, inst_info, pc, caller, new_state, inst_action, r, log,
          outcome, lastGet, stored0>>

\* Number of polls answering a status other than new_state that one call is followed for.
MaxPolls == 3

Statuses == {"running", "paused", "pausing", "resuming"}

\* Values a caller passes as new_state; "stopped" is a value no instance ever reports.
TargetStates == Statuses \cup {"stopped"}

InstActions == {"resume", "pause"}

NetStates == {"ok", "apierr", "down"}

Entry(e, a) == [ev |-> e, arg |-> a]

----------------------------------------------------------------------------
(* The remote API, as the requests the code sends see it.                  *)

\* requests.get(...) followed by r.json()['data']['status'] delivers a value
GetSucceeds(n) == n = "ok"

\* the value it delivers
GetStatus(rem) == rem

\* requests.post(...) returns a response object (otherwise it raises)
PostReturns(n) == n # "down"

\* the API carries the action out
PostAccepted(rem, act, n) ==
    /\ n = "ok"
    /\ \/ act = "pause" /\ rem = "running"
       \/ act = "resume" /\ rem = "paused"

\* status of the instance after the POST
PostEffect(rem, act, n) ==
    IF PostAccepted(rem, act, n)
    THEN IF act = "pause" THEN "pausing" ELSE "resuming"
    ELSE rem

\* a transition in progress completes
RemoteProgress ==
    /\ remote \in {"pausing", "resuming"}
    /\ remote' = IF remote = "pausing" THEN "paused" ELSE "running"
    /\ UNCHANGED <<net, inst_info, pc, caller, new_state, inst_action, r, log,
                   outcome, lastGet, stored0>>

\* somebody else (console, another client) pauses or resumes the instance
RemoteExternal ==
    /\ remote \in {"running", "paused"}
    /\ remote' = IF remote = "running" THEN "pausing" ELSE "resuming"
    /\ UNCHANGED <<net, inst_info, pc, caller, new_state, inst_action, r, log,
                   outcome, lastGet, stored0>>

NetChange ==
    /\ \E n \in NetStates \ {net} : net' = n
    /\ UNCHANGED <<remote, inst_info, pc, caller, new_state, inst_action, r, log,
                   outcome, lastGet, stored0>>

----------------------------------------------------------------------------
(* The client code.                                                        *)

\* variant: the refresh leaves the status entry as it was
aura_inst_state_NoWrite(info, resp) == info

\* aura_inst_state, line 87: inst_info['status'] = r.json()['data']['status']
aura_inst_state(info, resp) == [info EXCEPT !.status = resp]

\* variant: the loop also ends on any settled status
PollAgain_StableOnly(ns, status) == ns # status /\ status \notin {"running", "paused"}

\* variant: == written for !=
PollAgain_Inverted(ns, status) == ns = status

\* the while condition of aura_change_state, line 100: loop while new_state != status
PollAgain(ns, status) == ns # status

\* variant: the two action paths exchanged
StateChangeBranch_Swapped(status, ns) ==
    IF status = ns THEN "noop"
    ELSE IF ns = "running" /\ status = "paused" THEN "pause"
    ELSE IF ns = "paused" /\ status = "running" THEN "resume"
    ELSE "reject"

\* variant: the "already" test made only for the two settled states
StateChangeBranch_NoopSettledOnly(status, ns) ==
    IF status = ns /\ ns \in {"running", "paused"} THEN "noop"
    ELSE IF ns = "running" /\ status = "paused" THEN "resume"
    ELSE IF ns = "paused" /\ status = "running" THEN "pause"
    ELSE "reject"

\* variant: the elif tests look at new_state only
StateChangeBranch_NoStatusTest(status, ns) ==
    IF status = ns THEN "noop"
    ELSE IF ns = "running" THEN "resume"
    ELSE IF ns = "paused" THEN "pause"
    ELSE "reject"

\* the if/elif chain of aura_request_state_change, lines 115-124
StateChangeBranch(status, ns) ==
    IF status = ns THEN "noop"
    ELSE IF ns = "running" /\ status = "paused" THEN "resume"
    ELSE IF ns = "paused" /\ status = "running" THEN "pause"
    ELSE "reject"

\* number of entries of kind e in history h
Count(h, e) == Cardinality({i \in DOMAIN h : h[i].ev = e})

\* entering one of the three functions from top level
Enter(fn) ==
    /\ pc = "idle"
    /\ caller' = fn
    /\ r' = "none"
    /\ stored0' = inst_info.status

\* an exception leaves every frame: nothing is caught anywhere
Raise(ev, a) ==
    /\ pc' = "idle"
    /\ outcome' = "raised"
    /\ log' = Append(log, Entry(ev, a))

\* aura_inst_state, lines 86-89, when the GET delivers a status
StatusGetOk ==
    /\ GetSucceeds(net)
    /\ inst_info' = aura_inst_state(inst_info, GetStatus(remote))
    /\ lastGet' = GetStatus(remote)

\* a direct call of aura_inst_state(inst_info) that succeeds
InstStateOk ==
    /\ Enter("aura_inst_state")
    /\ StatusGetOk
    /\ log' = <<Entry("GET", GetStatus(remote))>>
    /\ outcome' = "returned"
    /\ UNCHANGED <<remote, net, pc, new_state, inst_action>>

\* a direct call of aura_inst_state(inst_info) whose GET fails
InstStateFail ==
    /\ Enter("aura_inst_state")
    /\ ~GetSucceeds(net)
    /\ log' = <<Entry("GETFAIL", "-")>>
    /\ outcome' = "raised"
    /\ UNCHANGED <<remote, net, inst_info, pc, new_state, inst_action, lastGet>>

\* a call aura_request_state_change(ns, inst_info) begins
CallRequest ==
    /\ Enter("aura_request_state_change")
    /\ \E ns \in TargetStates : new_state' = ns
    /\ pc' = "req_fetch"
    /\ log' = <<>>
    /\ outcome' = "none"
    /\ UNCHANGED <<remote, net, inst_info, inst_action, lastGet>>

\* variant: the GET is made but the branch reads the status passed in
ReqFetchOk_Stale ==
    /\ pc = "req_fetch"
    /\ GetSucceeds(net)
    /\ lastGet' = GetStatus(remote)
    /\ log' = Append(log, Entry("GET", GetStatus(remote)))
    /\ pc' = "req_branch"
    /\ UNCHANGED <<remote, net, inst_info, caller, new_state, inst_action, r,
                   outcome, stored0>>

\* line 113: inst_info = aura_inst_state(inst_info)
ReqFetchOk ==
    /\ pc = "req_fetch"
    /\ StatusGetOk
    /\ log' = Append(log, Entry("GET", GetStatus(remote)))
    /\ pc' = "req_branch"
    /\ UNCHANGED <<remote, net, caller, new_state, inst_action, r, outcome, stored0>>

ReqFetchFail ==
    /\ pc = "req_fetch"
    /\ ~GetSucceeds(net)
    /\ Raise("GETFAIL", "-")
    /\ UNCHANGED <<remote, net, inst_info, caller, new_state, inst_action, r,
                   lastGet, stored0>>

\* lines 115-116: already in the requested state
ReqNoop ==
    /\ pc = "req_branch"
    /\ StateChangeBranch(inst_info.status, new_state) = "noop"
    /\ log' = Append(log, Entry("NOOP", "-"))
    /\ outcome' = "noop"
    /\ pc' = "idle"
    /\ UNCHANGED <<remote, net, inst_info, caller, new_state, inst_action, r,
                   lastGet, stored0>>

\* lines 117-122: call aura_change_state(new_state, "resume" | "pause", inst_info)
ReqChange ==
    /\ pc = "req_branch"
    /\ StateChangeBranch(inst_info.status, new_state) \in InstActions
    /\ inst_action' = StateChangeBranch(inst_info.status, new_state)
    /\ pc' = "cs_post"
    /\ UNCHANGED <<remote, net, inst_info, caller, new_state, r, log, outcome,
                   lastGet, stored0>>

\* lines 123-124: "Can only change instance state from ..."
ReqReject ==
    /\ pc = "req_branch"
    /\ StateChangeBranch(inst_info.status, new_state) = "reject"
    /\ log' = Append(log, Entry("REJECT", "-"))
    /\ outcome' = "rejected"
    /\ pc' = "idle"
    /\ UNCHANGED <<remote, net, inst_info, caller, new_state, inst_action, r,
                   lastGet, stored0>>

\* a direct call aura_change_state(ns, act, inst_info) begins
CallChangeState ==
    /\ Enter("aura_change_state")
    /\ \E ns \in TargetStates : new_state' = ns
    /\ \E act \in InstActions : inst_action' = act
    /\ pc' = "cs_post"
    /\ log' = <<>>
    /\ outcome' = "none"
    /\ UNCHANGED <<remote, net, inst_info, lastGet>>

\* variant: do-while, the delay comes before the first poll
CsPost_SleepFirst ==
    /\ pc = "cs_post"
    /\ PostReturns(net)
    /\ r' = IF PostAccepted(remote, inst_action, net) THEN "accepted" ELSE "rejected"
    /\ remote' = PostEffect(remote, inst_action, net)
    /\ log' = Append(log, Entry("POST", inst_action))
    /\ pc' = "cs_sleep"
    /\ UNCHANGED <<net, inst_info, caller, new_state, inst_action, outcome,
                   lastGet, stored0>>

\* variant: r.raise_for_status() after the POST
CsPost_Checked ==
    /\ pc = "cs_post"
    /\ PostReturns(net)
    /\ r' = IF PostAccepted(remote, inst_action, net) THEN "accepted" ELSE "rejected"
    /\ remote' = PostEffect(remote, inst_action, net)
    /\ log' = Append(log, Entry("POST", inst_action))
    /\ pc' = IF r' = "accepted" THEN "cs_poll" ELSE "idle"
    /\ outcome' = IF r' = "accepted" THEN outcome ELSE "raised"
    /\ UNCHANGED <<net, inst_info, caller, new_state, inst_action, lastGet, stored0>>

\* lines 93-98: r = requests.post(... + "/" + inst_action, ...) returns a response
CsPost ==
    /\ pc = "cs_post"
    /\ PostReturns(net)
    /\ r' = IF PostAccepted(remote, inst_action, net) THEN "accepted" ELSE "rejected"
    /\ remote' = PostEffect(remote, inst_action, net)
    /\ log' = Append(log, Entry("POST", inst_action))
    /\ pc' = "cs_poll"
    /\ UNCHANGED <<net, inst_info, caller, new_state, inst_action, outcome,
                   lastGet, stored0>>

\* line 98: requests.post raises
CsPostRaises ==
    /\ pc = "cs_post"
    /\ ~PostReturns(net)
    /\ Raise("POSTFAIL", inst_action)
    /\ UNCHANGED <<remote, net, inst_info, caller, new_state, inst_action, r,
                   lastGet, stored0>>

\* line 100: the status fetched equals new_state, the loop ends
CsPollMatch ==
    /\ pc = "cs_poll"
    /\ StatusGetOk
    /\ ~PollAgain(new_state, inst_info'.status)
    /\ log' = Append(log, Entry("GET", GetStatus(remote)))
    /\ pc' = "cs_report"
    /\ UNCHANGED <<remote, net, caller, new_state, inst_action, r, outcome, stored0>>

\* line 100: the status fetched differs from new_state, the loop body is entered
CsPollMismatch ==
    /\ pc = "cs_poll"
    /\ Count(log, "SLEEP") < MaxPolls
    /\ StatusGetOk
    /\ PollAgain(new_state, inst_info'.status)
    /\ log' = Append(log, Entry("GET", GetStatus(remote)))
    /\ pc' = "cs_sleep"
    /\ UNCHANGED <<remote, net, caller, new_state, inst_action, r, outcome, stored0>>

\* variant: the failed GET is caught and counted as one more poll
CsPollFail_Swallowed ==
    /\ pc = "cs_poll"
    /\ Count(log, "SLEEP") < MaxPolls
    /\ ~GetSucceeds(net)
    /\ log' = Append(log, Entry("GETFAIL", "-"))
    /\ pc' = "cs_sleep"
    /\ UNCHANGED <<remote, net, inst_info, caller, new_state, inst_action, r,
                   outcome, lastGet, stored0>>

\* line 100: the GET inside aura_inst_state fails
CsPollFail ==
    /\ pc = "cs_poll"
    /\ ~GetSucceeds(net)
    /\ Raise("GETFAIL", "-")
    /\ UNCHANGED <<remote, net, inst_info, caller, new_state, inst_action, r,
                   lastGet, stored0>>

\* lines 101-102: print("."), time.sleep(5)
CsSleep ==
    /\ pc = "cs_sleep"
    /\ log' = Append(log, Entry("SLEEP", "-"))
    /\ pc' = "cs_poll"
    /\ UNCHANGED <<remote, net, inst_info, caller, new_state, inst_action, r,
                   outcome, lastGet, stored0>>

\* lines 104-109: the "is now" and "Elapsed time" prints, return
CsReport ==
    /\ pc = "cs_report"
    /\ log' = Append(log, Entry("REPORT", "-"))
    /\ outcome' = "completed"
    /\ pc' = "idle"
    /\ UNCHANGED <<remote, net, inst_info, caller, new_state, inst_action, r,
                   lastGet, stored0>>

\* the steps of a call in progress: the interpreter runs them without being asked
ClientStep ==
    \/ ReqFetchOk \/ ReqFetchFail \/ ReqNoop \/ ReqChange \/ ReqReject
    \/ CsPost \/ CsPostRaises \/ CsPollMatch \/ CsPollMismatch \/ CsPollFail
    \/ CsSleep \/ CsReport

Init ==
    /\ remote \in Statuses
    /\ net \in NetStates
    /\ inst_info = [status |-> remote]
    /\ pc = "idle"
    /\ caller = "none"
    /\ new_state = "none"
    /\ inst_action = "none"
    /\ r = "none"
    /\ log = <<>>
    /\ outcome = "none"
    /\ lastGet = remote
    /\ stored0 = remote

Next ==
    \/ RemoteProgress
    \/ RemoteExternal
    \/ NetChange
    \/ InstStateOk
    \/ InstStateFail
    \/ CallRequest
    \/ CallChangeState
    \/ ReqFetchOk
    \/ ReqFetchFail
    \/ ReqNoop
    \/ ReqChange
    \/ ReqReject
    \/ CsPost
    \/ CsPostRaises
    \/ CsPollMatch
    \/ CsPollMismatch
    \/ CsPollFail
    \/ CsSleep
    \/ CsReport

Spec == Init /\ [][Next]_vars

\* a call once begun keeps running: synchronous code, nothing to wait for but the network
FairSpec == Spec /\ WF_vars(ClientStep)
----------------------------------------------------------------------------
(* Reading the history of a call.                                          *)

IsRequest == caller = "aura_request_state_change"

IsChange == caller \in {"aura_request_state_change", "aura_change_state"}

\* the call in progress has fetched the status at its start
HasFetched == IsRequest /\ Len(log) >= 1 /\ log[1].ev = "GET"

\* positions of the POSTs issued (a POST that raised was issued too)
PostIdx == {i \in DOMAIN log : log[i].ev \in {"POST", "POSTFAIL"}}

\* positions of the status GETs of the polling loop: those after the POST
PollIdx == {i \in DOMAIN log : /\ log[i].ev \in {"GET", "GETFAIL"}
                               /\ \E j \in PostIdx : j < i}

\* positions of the status GETs that delivered a status
OkGetIdx == {i \in DOMAIN log : log[i].ev = "GET"}

\* the status of the last successful GET of this call (stored0 if there is none)
LastOkStatus ==
    IF OkGetIdx = {} THEN stored0
    ELSE log[CHOOSE i \in OkGetIdx : \A j \in OkGetIdx : j <= i].arg

InLoop == pc \in {"cs_poll", "cs_sleep"}

----------------------------------------------------------------------------
\* C1: a request whose fetched status is paused with new_state running, or
\* running with new_state paused, issues exactly one POST in the whole call,
\* right after the fetch, to "resume" for running and to "pause" for paused;
\* no poll repeats it and none goes to the other path.
C1_ExactlyOnePost ==
    ( /\ HasFetched
      /\ \/ log[1].arg = "paused" /\ new_state = "running"
         \/ log[1].arg = "running" /\ new_state = "paused" )
    => /\ Cardinality(PostIdx) <= 1
       /\ \A i \in PostIdx :
            /\ i = 2
            /\ log[i].arg = (IF new_state = "running" THEN "resume" ELSE "pause")
       /\ pc \in {"cs_poll", "cs_sleep", "cs_report", "idle"} => Cardinality(PostIdx) = 1
       /\ pc \in {"req_branch", "cs_post"} => PostIdx = {}

C1_Witness ==
    /\ HasFetched
    /\ log[1].arg = "paused"
    /\ new_state = "running"
    /\ outcome = "completed"
    /\ Count(log, "SLEEP") >= 2
    /\ log[2] = Entry("POST", "resume")

\* C2: a request whose fetched status equals new_state (whatever new_state is)
\* issues no POST and never polls: it returns after that one GET.
C2_AlreadyThere ==
    (HasFetched /\ log[1].arg = new_state)
    => /\ PostIdx = {}
       /\ Count(log, "GET") + Count(log, "GETFAIL") = 1
       /\ Count(log, "SLEEP") = 0
       /\ pc \in {"req_branch", "idle"}
       /\ pc = "req_branch" => log = <<Entry("GET", new_state)>>
       /\ pc = "idle" => /\ outcome = "noop"
                         /\ log = <<Entry("GET", new_state), Entry("NOOP", "-")>>

C2_Witness ==
    /\ HasFetched
    /\ log[1].arg = "pausing"
    /\ new_state = "pausing"
    /\ outcome = "noop"
    /\ pc = "idle"

\* C3: a request whose (fetched status, new_state) is neither equal nor
\* (paused, running) nor (running, paused) issues no POST, never polls and
\* ends with the "Can only change instance state" message.
C3_Rejected ==
    ( /\ HasFetched
      /\ log[1].arg # new_state
      /\ ~(log[1].arg = "paused" /\ new_state = "running")
      /\ ~(log[1].arg = "running" /\ new_state = "paused") )
    => /\ PostIdx = {}
       /\ Count(log, "GET") + Count(log, "GETFAIL") = 1
       /\ Count(log, "SLEEP") = 0
       /\ pc \in {"req_branch", "idle"}
       /\ pc = "req_branch" => Len(log) = 1
       /\ pc = "idle" => /\ outcome = "rejected"
                         /\ log = <<log[1], Entry("REJECT", "-")>>

C3_Witness ==
    /\ HasFetched
    /\ log[1].arg = "resuming"
    /\ new_state = "stopped"
    /\ outcome = "rejected"
    /\ pc = "idle"

\* C4: the polling loop ends normally only on a poll that delivered
\* new_state, so on every normal return inst_info['status'] = new_state; a
\* poll that delivers anything else leads to the sleep and the sleep back to
\* the poll, whatever the number of polls so far; the only other way out is
\* the exception of a failed GET.
C4_ExitOnlyOnMatch ==
    /\ []( (IsChange /\ (pc = "cs_report" \/ outcome = "completed"))
           => /\ inst_info.status = new_state
              /\ OkGetIdx # {}
              /\ LastOkStatus = new_state )
    /\ [][ (pc = "cs_poll" /\ pc' # pc)
           => \/ pc' = "cs_report" /\ lastGet' = new_state
                                   /\ inst_info'.status = new_state
              \/ pc' = "cs_sleep" /\ lastGet' # new_state
              \/ pc' = "idle" /\ outcome' = "raised" ]_vars
    /\ [][ (pc = "cs_sleep" /\ pc' # pc) => pc' = "cs_poll" ]_vars
    /\ [][ (InLoop /\ outcome' = "completed") => FALSE ]_vars

C4_Witness ==
    /\ caller = "aura_change_state"
    /\ outcome = "completed"
    /\ Count(log, "SLEEP") = MaxPolls
    /\ inst_info.status = new_state
    /\ stored0 # new_state

\* C5: inst_info['status'] always equals the status delivered by the most
\* recent completed status GET; the POST, the sleep, the branch and a failed
\* GET leave it alone.
C5_StatusIsLastGet == inst_info.status = lastGet

C5_Witness ==
    /\ pc = "cs_sleep"
    /\ r = "accepted"
    /\ inst_info.status # stored0
    /\ inst_info.status # remote
    /\ Count(log, "SLEEP") >= 1

\* C6: a status GET that fails inside the polling loop ends the call with the
\* exception: it is the last thing the call did (no retry, no later GET or
\* POST), no completion report was printed, and inst_info['status'] is the
\* status of the last successful GET.
C6_PollFailurePropagates ==
    \A i \in PollIdx :
        log[i].ev = "GETFAIL"
        => /\ i = Len(log)
           /\ pc = "idle"
           /\ outcome = "raised"
           /\ Count(log, "REPORT") = 0
           /\ Count(log, "GETFAIL") = 1
           /\ inst_info.status = LastOkStatus

C6_Witness ==
    /\ IsRequest
    /\ outcome = "raised"
    /\ Len(log) >= 5
    /\ log[Len(log)].ev = "GETFAIL"
    /\ log[Len(log) - 1].ev = "SLEEP"
    /\ inst_info.status = "pausing"
    /\ remote = "paused"

\* C7: once the POST is done, if from some point on the network works and the
\* instance reports new_state at every poll, the call returns with its
\* elapsed-time report.
C7_EventuallyReturns ==
    []( (IsChange /\ pc \in {"cs_poll", "cs_sleep", "cs_report"})
        => ( [](net = "ok" /\ remote = new_state) => <>(outcome = "completed") ) )

C7_Witness ==
    /\ IsRequest
    /\ outcome = "completed"
    /\ r = "accepted"
    /\ Count(log, "SLEEP") >= 1
    /\ remote = new_state

\* C7, second half: the instance showed new_state between two polls, no poll
\* saw it, and the loop is still polling.
C7_TransientMissed ==
    /\ IsRequest
    /\ pc = "cs_sleep"
    /\ new_state = "paused"
    /\ remote = "resuming"
    /\ log[Len(log)] = Entry("GET", "resuming")
    /\ log[Len(log) - 2] = Entry("GET", "pausing")

\* C7, second half as a strengthening that does not hold under FairSpec: the
\* instance showing new_state at one moment of the loop does not lead to a return.
C7_TransientSuffices ==
    (IsChange /\ InLoop /\ remote = new_state /\ net = "ok")
        ~> (outcome \in {"completed", "raised"})

\* C8: in aura_change_state the POST comes first; the first poll follows it
\* directly; every later poll directly follows one sleep, and every sleep
\* directly follows a poll that delivered a status other than new_state; the
\* matching poll is followed by the report and nothing else, so on return
\* sleeps = polls - 1.
C8_EventOrder ==
    IsChange =>
    /\ \A i \in DOMAIN log :
         /\ log[i].ev \in {"SLEEP", "REPORT"} => \E j \in PostIdx : j < i - 1
         /\ (i \in PostIdx /\ i < Len(log)) => log[i + 1].ev \in {"GET", "GETFAIL"}
         /\ i \in PollIdx => \/ i - 1 \in PostIdx
                             \/ log[i - 1].ev = "SLEEP" /\ i - 2 \in PollIdx
         /\ log[i].ev = "SLEEP" => /\ log[i - 1].ev = "GET"
                                   /\ log[i - 1].arg # new_state
                                   /\ i < Len(log) => i + 1 \in PollIdx
         /\ (i \in PollIdx /\ log[i].ev = "GET" /\ i < Len(log))
               => log[i + 1].ev = (IF log[i].arg = new_state THEN "REPORT" ELSE "SLEEP")
         /\ log[i].ev = "REPORT" => /\ i = Len(log)
                                    /\ log[i - 1] = Entry("GET", new_state)
    /\ pc = "cs_sleep" => log[Len(log)].ev = "GET" /\ log[Len(log)].arg # new_state
    /\ pc = "cs_report" => log[Len(log)] = Entry("GET", new_state)
    /\ outcome = "completed" => /\ Count(log, "SLEEP") + 1 = Cardinality(PollIdx)
                                /\ log[Len(log)].ev = "REPORT"

C8_Witness ==
    /\ IsRequest
    /\ outcome = "completed"
    /\ Len(log) = 8
    /\ Count(log, "SLEEP") = 2
    /\ Cardinality(PollIdx) = 3

\* C9: aura_request_state_change decides on the status its own GET fetched,
\* not on the status inst_info held when passed in: a POST is always entry 2
\* of the call, after exactly one GET, and its path is the one the fetched
\* status calls for; "already" and the rejection are decided the same way.
C9_BranchOnFreshStatus ==
    IsRequest =>
    /\ PostIdx # {} =>
         /\ PostIdx = {2}
         /\ log[1].ev = "GET"
         /\ \/ log[2].arg = "resume" /\ log[1].arg = "paused" /\ new_state = "running"
            \/ log[2].arg = "pause" /\ log[1].arg = "running" /\ new_state = "paused"
    /\ pc = "cs_post" =>
         /\ log[1].ev = "GET"
         /\ \/ inst_action = "resume" /\ log[1].arg = "paused" /\ new_state = "running"
            \/ inst_action = "pause" /\ log[1].arg = "running" /\ new_state = "paused"
    /\ outcome = "noop" => log[1] = Entry("GET", new_state)
    /\ outcome = "rejected" =>
         /\ log[1].ev = "GET"
         /\ log[1].arg # new_state
         /\ ~(log[1].arg = "paused" /\ new_state = "running")
         /\ ~(log[1].arg = "running" /\ new_state = "paused")

C9_Witness ==
    /\ HasFetched
    /\ stored0 = "running"
    /\ log[1] = Entry("GET", "paused")
    /\ new_state = "paused"
    /\ outcome = "noop"

\* C10: the POST's response is never looked at: an accepted and a rejected
\* POST both lead to the first poll with nothing else changed; no rejection
\* is ever reported after a POST; and after a rejected POST, while the
\* instance keeps a status other than new_state and the network works, the
\* call stays in the polling loop.
C10_ResponseIgnored ==
    /\ [][ (pc = "cs_post" /\ r' # r)
           => /\ r' \in {"accepted", "rejected"}
              /\ pc' = "cs_poll"
              /\ outcome' = "none"
              /\ inst_info' = inst_info
              /\ log' = Append(log, Entry("POST", inst_action)) ]_vars
    /\ []( r = "rejected" => (Count(log, "REJECT") = 0 /\ outcome \in {"none", "completed", "raised"}) )
    /\ [][ ( /\ r = "rejected" /\ InLoop
             /\ remote # new_state /\ remote' = remote
             /\ net = "ok" /\ net' = "ok" )
           => (InLoop' /\ outcome' = "none") ]_vars

C10_Witness ==
    /\ r = "rejected"
    /\ pc = "cs_sleep"
    /\ Count(log, "SLEEP") = MaxPolls - 1
    /\ \A i \in PollIdx : log[i] = Entry("GET", stored0)
    /\ remote = stored0
====
